---- MODULE Spec2Model ----
(***************************************************************************)
(* Austin, Linux attach path: the remote memory reader (copy_memory), the  *)
(* process map introspector (_py_proc__parse_maps_file) and the ELF        *)
(* analysis (_py_proc__analyze_elf, _py_proc__analyze_elf32/64), driven by *)
(* _py_proc__init.  The target process (its maps listing, the files behind *)
(* it and their ELF images) is fixed in Init and never changes; the        *)
(* sampler's state evolves by the actions below.                           *)
(***************************************************************************)
EXTENDS Integers, Sequences, FiniteSets, TLC

VARIABLES
  arch,          \* word size of the target's ELF objects: 32 or 64
  present,       \* lines of MapLines that the target's /proc/<pid>/maps holds
  pc,            \* position of the sampler in _py_proc__init and its callees
  attempts,      \* calls of _py_proc__init made so far
  cursor,        \* index in MapLines of the line getline() returned last
  self,          \* the py_proc_t object
  maps_flag,     \* local of _py_proc__parse_maps_file
  maps_ret,      \* value returned by the last _py_proc__parse_maps_file
  austin_errno,  \* the process-wide error slot written by set_error
  ehdr_v,        \* the file-scope ELF header union
  rd,            \* the last copy_memory call: arguments, syscall, result
  an,            \* locals of _py_proc__analyze_elf and _py_proc__analyze_elfNN
  hist,          \* one record per finished call of _py_proc__analyze_elf
  reads,         \* copy_memory calls made by the attached sampler
  handles        \* open streams, descriptors and file mappings of the sampler

vars == <<arch, present, pc, attempts, cursor, self, maps_flag, maps_ret,
          austin_errno, ehdr_v, rd, an, hist, reads, handles>>

------------------------------------------------------------------------------
(* Bounds of the model. *)

\* calls of _py_proc__init explored per session
MaxAttempts == 2

\* sampling reads explored after a successful attach
MaxReads == 1

------------------------------------------------------------------------------
(* Constants of the program and of its platform. *)

NULL == 0

\* a char * that is NULL
NoPath == "(null)"

\* width of a pointer / of an Elf64 word, scaled down from 64
PtrBits == 28
PtrMod == 2 ^ PtrBits
\* (void *) -1
PtrMax == PtrMod - 1

\* width of an Elf32 word, scaled down from 32
Word32Bits == 24

HEAP_MAP == 2 ^ 3

SYMBOLS == 2

\* the size threshold of the candidate test, 1 << 20
MB == 2 ^ 20

------------------------------------------------------------------------------
(* The target process: the lines its maps file can hold, in address order. *)
(* fields is the number of sscanf conversions (7: no pathname).            *)

MapLines == <<
  [lower |-> 1048576,   upper |-> 2097152,   fields |-> 8, path |-> "/usr/lib/libpython3.8.so"],
  [lower |-> 4194304,   upper |-> 5242880,   fields |-> 8, path |-> "/usr/bin/python3.8"],
  [lower |-> 5242880,   upper |-> 6291456,   fields |-> 8, path |-> "/usr/local/bin/python2.7"],
  [lower |-> 6291456,   upper |-> 7340032,   fields |-> 8, path |-> "/opt/bin/python-1M"],
  [lower |-> 8388608,   upper |-> 9437184,   fields |-> 8, path |-> "[heap]"],
  [lower |-> 10485760,  upper |-> 11534336,  fields |-> 8, path |-> "/usr/lib/python3/lib-dynload/_small.so"],
  [lower |-> 12582912,  upper |-> 13631488,  fields |-> 8, path |-> "/usr/lib/python3/site-packages/big.so"],
  [lower |-> 14680064,  upper |-> 15728640,  fields |-> 7, path |-> ""],
  [lower |-> 267386880, upper |-> 267390976, fields |-> 8, path |-> "[vsyscall]"]
>>

NLines == Len(MapLines)

\* strstr(line, "python") != NULL
HasPython(l) ==
  l.path \in {"/usr/lib/libpython3.8.so", "/usr/bin/python3.8",
              "/usr/local/bin/python2.7", "/opt/bin/python-1M",
              "/usr/lib/python3/lib-dynload/_small.so",
              "/usr/lib/python3/site-packages/big.so"}

\* strstr(line, "[heap]\n") != NULL
HasHeap(l) == l.path = "[heap]"

\* strstr(pathname, "[v") != NULL
HasV(l) == l.path \in {"[vsyscall]"}

(* The files behind the listing: e_type of the ELF header on disk and the  *)
(* size stat() reports.                                                    *)
Files == [p \in {"/usr/lib/libpython3.8.so", "/usr/bin/python3.8",
                 "/usr/local/bin/python2.7", "/opt/bin/python-1M",
                 "/usr/lib/python3/lib-dynload/_small.so",
                 "/usr/lib/python3/site-packages/big.so"} |->
  CASE p = "/usr/lib/libpython3.8.so"                -> [e_type |-> "ET_DYN",  st_size |-> MB + 8192]
    [] p = "/usr/bin/python3.8"                      -> [e_type |-> "ET_EXEC", st_size |-> MB + 4096]
    [] p = "/usr/local/bin/python2.7"                -> [e_type |-> "ET_EXEC", st_size |-> MB + 4096]
    [] p = "/opt/bin/python-1M"                      -> [e_type |-> "ET_EXEC", st_size |-> MB]
    [] p = "/usr/lib/python3/lib-dynload/_small.so"  -> [e_type |-> "ET_DYN",  st_size |-> MB - 1]
    [] p = "/usr/lib/python3/site-packages/big.so"   -> [e_type |-> "ET_DYN",  st_size |-> MB + 4096]]

------------------------------------------------------------------------------
(* The ELF objects of the target.  Structure sizes and the offset of the   *)
(* last byte of each field the analysis reads, per ELF class (<elf.h>).    *)

Lay(cls) ==
  IF cls = 64
    THEN [ehdr |-> 64, phdr |-> 56, shdr |-> 64, sym |-> 24,
          p_type |-> 3, p_vaddr |-> 23, p_align |-> 55,
          sh_name |-> 3, sh_type |-> 7, sh_addr |-> 23, sh_offset |-> 31,
          sh_size |-> 39, sh_link |-> 43, sh_entsize |-> 63,
          st_name |-> 3, st_value |-> 15]
    ELSE [ehdr |-> 52, phdr |-> 32, shdr |-> 40, sym |-> 16,
          p_type |-> 3, p_vaddr |-> 11, p_align |-> 31,
          sh_name |-> 3, sh_type |-> 7, sh_addr |-> 15, sh_offset |-> 19,
          sh_size |-> 23, sh_link |-> 27, sh_entsize |-> 39,
          st_name |-> 3, st_value |-> 7]

\* where the images keep their dynamic symbols and their two string tables
DynsymOff == 2 ^ 12
DynstrOff == 2 ^ 13
ShstrOff  == 3 * 2 ^ 12
\* distance between two names of a string table
NameStep  == 2 ^ 5

Phdr(t, v, a) == [p_type |-> t, p_vaddr |-> v, p_align |-> a]

Sym(n, v) == [name |-> n, st_value |-> v]

\* the five sections of every image; section i is named at ShstrOff + i * NameStep
Sections(cls, nsyms, bss_addr) ==
  << [sh_name |-> 0, sh_type |-> "SHT_NULL", sh_addr |-> 0, sh_offset |-> 0,
      sh_size |-> 0, sh_link |-> 0, sh_entsize |-> 0],
     [sh_name |-> NameStep, sh_type |-> "SHT_DYNSYM", sh_addr |-> 0,
      sh_offset |-> DynsymOff, sh_size |-> nsyms * Lay(cls).sym, sh_link |-> 2,
      sh_entsize |-> Lay(cls).sym],
     [sh_name |-> 2 * NameStep, sh_type |-> "SHT_STRTAB", sh_addr |-> 0,
      sh_offset |-> DynstrOff, sh_size |-> nsyms * NameStep, sh_link |-> 0,
      sh_entsize |-> 0],
     [sh_name |-> 3 * NameStep, sh_type |-> "SHT_NOBITS", sh_addr |-> bss_addr,
      sh_offset |-> ShstrOff, sh_size |-> 2 ^ 12, sh_link |-> 0, sh_entsize |-> 0],
     [sh_name |-> 4 * NameStep, sh_type |-> "SHT_STRTAB", sh_addr |-> 0,
      sh_offset |-> ShstrOff, sh_size |-> 5 * NameStep, sh_link |-> 0,
      sh_entsize |-> 0] >>

SectionNames == << "", ".dynsym", ".dynstr", ".bss", ".shstrtab" >>

\* link address of the position-dependent executables
ExecBase == 2 ^ 22

\* the first loadable segment starts inside its page
ExecPhdrs(cls) ==
  << Phdr("PT_PHDR", ExecBase + Lay(cls).ehdr, 8),
     Phdr("PT_LOAD", ExecBase + 2 ^ 9, 2 ^ 12) >>

LibPhdrs == << Phdr("PT_LOAD", 0, 2 ^ 12) >>

\* a table without a loadable segment
NoLoadPhdrs == << Phdr("PT_NOTE", 2 ^ 9, 4), Phdr("PT_DYNAMIC", 2 ^ 13, 8) >>

\* a loadable segment that asks for no alignment, with p_align = a (0 or 1)
UnalignedPhdrs(v, a) == << Phdr("PT_NOTE", 2 ^ 9, 4), Phdr("PT_LOAD", v, a) >>

(* The object file behind path p, as it is on disk: its program headers,   *)
(* its dynamic symbols, its length, and the e_shoff its header declares.   *)
(* A complete file ends with its section header table; the file of         *)
(* python2.7 was cut after the header was loaded, so its table lies past   *)
(* the end of the file.                                                    *)
Image(p, cls) ==
  LET sht == 5 * Lay(cls).shdr IN
  CASE p = "/usr/bin/python3.8" ->
         [phdrs |-> ExecPhdrs(cls),
          syms  |-> << Sym("", 0), Sym("_PyThreadState_Current", ExecBase + 2 ^ 14),
                       Sym("Py_Main", ExecBase + 2 ^ 13),
                       Sym("_PyRuntime", ExecBase + 2 ^ 15),
                       Sym("Py_Exit", ExecBase + 3 * 2 ^ 12) >>,
          bss_addr |-> ExecBase + 2 ^ 16,
          len |-> Files[p].st_size, e_shoff |-> Files[p].st_size - sht]
    [] p = "/usr/local/bin/python2.7" ->
         [phdrs |-> ExecPhdrs(cls),
          syms  |-> << Sym("", 0), Sym("_PyThreadState_Current", ExecBase + 2 ^ 14) >>,
          bss_addr |-> ExecBase + 2 ^ 16,
          len |-> Files[p].st_size, e_shoff |-> Files[p].st_size + 2 ^ 12]
    [] p = "/opt/bin/python-1M" ->
         [phdrs |-> IF cls = 64 THEN NoLoadPhdrs ELSE UnalignedPhdrs(ExecBase + 5, 1),
          syms  |-> << Sym("", 0), Sym("Py_Main", ExecBase + 2 ^ 13),
                       Sym("_PyThreadState_Current", ExecBase + 2 ^ 14) >>,
          bss_addr |-> ExecBase + 2 ^ 16,
          len |-> Files[p].st_size, e_shoff |-> Files[p].st_size - sht]
    [] p = "/usr/lib/libpython3.8.so" ->
         [phdrs |-> LibPhdrs,
          syms  |-> << Sym("", 0), Sym("_PyRuntime", 2 ^ 15),
                       Sym("Py_Initialize", 2 ^ 13) >>,
          bss_addr |-> 2 ^ 16,
          len |-> Files[p].st_size, e_shoff |-> Files[p].st_size - sht]
    [] OTHER ->
         [phdrs |-> UnalignedPhdrs(2 ^ 12, 0),
          syms  |-> << Sym("", 0), Sym("PyInit_ext", 2 ^ 13) >>,
          bss_addr |-> 2 ^ 16,
          len |-> Files[p].st_size, e_shoff |-> Files[p].st_size - sht]

\* the 64 bytes at the start of a loaded object: its ELF header and, for a
\* 32-bit object, the 12 bytes of its first program header that follow;
\* w60 is the 16-bit word at bytes 60..61: e_shnum of a 64-bit header, the
\* low half of the first program header's p_vaddr after a 32-bit header
HeaderOf(p, cls) ==
  LET img == Image(p, cls) IN
  [magic |-> TRUE, class |-> cls, e_ehsize |-> Lay(cls).ehdr,
   e_phoff |-> Lay(cls).ehdr, e_phentsize |-> Lay(cls).phdr,
   e_phnum |-> Len(img.phdrs), e_shoff |-> img.e_shoff,
   e_shentsize |-> Lay(cls).shdr, e_shnum |-> 5, e_shstrndx |-> 4,
   w60 |-> IF cls = 32 THEN img.phdrs[1].p_vaddr % 2 ^ 16 ELSE 5]

\* the union before anything was read into it: static storage, all zero
ZeroHeader ==
  [magic |-> FALSE, class |-> 0, e_ehsize |-> 0, e_phoff |-> 0, e_phentsize |-> 0,
   e_phnum |-> 0, e_shoff |-> 0, e_shentsize |-> 0, e_shnum |-> 0,
   e_shstrndx |-> 0, w60 |-> 0]

\* the path of the file mapped at address a in the target
PathAt(a) == (CHOOSE l \in {MapLines[i] : i \in 1 .. NLines} : l.lower = a).path

(* The local mapping of an object file: mmap(NULL, maplen, ..., fd, 0).    *)
(* A byte of the mapping is file data when it lies in the file, zero when  *)
(* it lies past the end of the file on the file's last page, and a fault   *)
(* (SIGBUS, SIGSEGV) otherwise.                                            *)

PageUp(n) == ((n + 2 ^ 12 - 1) \div 2 ^ 12) * 2 ^ 12

Kind(img, maplen, last) ==
  IF last < 0 THEN "fault"
  ELSE IF last < img.len /\ last < PageUp(maplen) THEN "data"
  ELSE IF last < PageUp(img.len) /\ last < PageUp(maplen) THEN "zero"
  ELSE "fault"

ZeroPhdr == [p_type |-> "PT_NULL", p_vaddr |-> 0, p_align |-> 0]

ZeroShdr == [sh_name |-> 0, sh_type |-> "SHT_NULL", sh_addr |-> 0, sh_offset |-> 0,
             sh_size |-> 0, sh_link |-> 0, sh_entsize |-> 0]

ZeroSym == [st_name |-> 0, st_value |-> 0]

\* the structures of the file at offset off; bytes the image does not
\* describe are padding and read as zero
FilePhdr(img, cls, off) ==
  LET I == {i \in 1 .. Len(img.phdrs) : off = Lay(cls).ehdr + (i - 1) * Lay(cls).phdr}
  IN IF I = {} THEN ZeroPhdr ELSE img.phdrs[CHOOSE i \in I : TRUE]

FileShdr(img, cls, off) ==
  LET I == {i \in 1 .. 5 : off = img.e_shoff + (i - 1) * Lay(cls).shdr}
  IN IF I = {} THEN ZeroShdr
     ELSE Sections(cls, Len(img.syms), img.bss_addr)[CHOOSE i \in I : TRUE]

FileSym(img, cls, off) ==
  LET I == {i \in 1 .. Len(img.syms) : off = DynsymOff + (i - 1) * Lay(cls).sym}
  IN IF I = {} THEN ZeroSym
     ELSE LET i == CHOOSE i \in I : TRUE
          IN [st_name |-> (i - 1) * NameStep, st_value |-> img.syms[i].st_value]

\* the NUL-terminated string of the file that starts at offset off
FileStr(img, off) ==
  LET D == {i \in 1 .. Len(img.syms) : off = DynstrOff + (i - 1) * NameStep}
      S == {i \in 1 .. 5 : off = ShstrOff + (i - 1) * NameStep}
  IN IF D # {} THEN img.syms[CHOOSE i \in D : TRUE].name
     ELSE IF S # {} THEN SectionNames[CHOOSE i \in S : TRUE]
     ELSE ""

\* what a read through the mapping yields: the file's bytes or zeros
MapPhdr(img, cls, maplen, off) ==
  IF Kind(img, maplen, off + Lay(cls).phdr - 1) = "data"
    THEN FilePhdr(img, cls, off) ELSE ZeroPhdr

MapShdr(img, cls, maplen, off) ==
  IF Kind(img, maplen, off + Lay(cls).shdr - 1) = "data"
    THEN FileShdr(img, cls, off) ELSE ZeroShdr

MapSym(img, cls, maplen, off) ==
  IF Kind(img, maplen, off + Lay(cls).sym - 1) = "data"
    THEN FileSym(img, cls, off) ELSE ZeroSym

MapStr(img, maplen, off) ==
  IF Kind(img, maplen, off) = "data" THEN FileStr(img, off) ELSE ""

------------------------------------------------------------------------------
(* Remote Memory Reader: copy_memory, Linux branch. *)

\* the errno values process_vm_readv can leave
Errnos == {"ESRCH", "EPERM", "EFAULT", "EINVAL"}

\* the switch on errno after a failed process_vm_readv
copy_memory_error(eno) ==
  CASE eno = "ESRCH" -> "EPROCNPID"
    [] eno = "EPERM" -> "EPROCPERM"
    [] OTHER         -> "EMEMCOPY"

\* the error slot after the call: written only when the syscall returned -1
copy_memory_errno(result, eno, old) ==
  IF result = -1 THEN copy_memory_error(eno) ELSE old

\* a copy_memory that takes only -1 for a failure
copy_memory_ret_short(result, len) == IF result = -1 THEN 1 ELSE 0

\* return result != len
copy_memory_ret(result, len) == IF result # len THEN 1 ELSE 0

\* the record of one call: process_vm_readv is issued unconditionally at addr
copy_memory(addr, len, result, eno) ==
  [addr     |-> addr,
   len      |-> len,
   issued   |-> TRUE,
   in_range |-> self.min_raddr <= addr /\ addr < self.max_raddr,
   result   |-> result,
   eno      |-> eno,
   set      |-> result = -1,
   err      |-> copy_memory_errno(result, eno, austin_errno),
   ret      |-> copy_memory_ret(result, len)]

NoRead == [addr |-> NULL, len |-> 0, issued |-> FALSE, in_range |-> TRUE,
           result |-> 0, eno |-> "EFAULT", set |-> FALSE, err |-> "EOK",
           ret |-> 0]

------------------------------------------------------------------------------
(* Process Map Introspector: _py_proc__parse_maps_file. *)

\* the handles the sampler holds: streams from fopen, descriptors from open,
\* mappings from mmap
NoHandles == [streams |-> 0, fds |-> 0, maps |-> 0]

fopen(h) == [h EXCEPT !.streams = @ + 1]

fclose(h) == [h EXCEPT !.streams = @ - 1]

open(h) == [h EXCEPT !.fds = @ + 1]

close(h) == [h EXCEPT !.fds = @ - 1]

mmap(h) == [h EXCEPT !.maps = @ + 1]

munmap(h) == [h EXCEPT !.maps = @ - 1]

\* sfree(p): free the string and reset the pointer
sfree(p) == NoPath

\* _file_size(pathname): st_size as stat() reports it
file_size_of(path) == Files[path].st_size

\* _elf_is_executable(pathname): e_type == ET_EXEC in the header on disk
elf_is_executable(path) == Files[path].e_type = "ET_EXEC"

\* the handles after _elf_is_executable: open, mmap, munmap, close
elf_is_executable_handles(h) == close(munmap(mmap(open(h))))

\* the lines on which the loop reaches the call of _elf_is_executable
reaches_elf_is_executable(flag, l) ==
  /\ l.fields >= 7
  /\ ~(flag % (2 * HEAP_MAP) < HEAP_MAP /\ HasHeap(l))
  /\ HasPython(l)

\* the test that skips an executable line
bin_rejected(s, file_size) == s.bin_path # NoPath \/ file_size < MB

\* a library test that forgets the executable found before
lib_rejected_no_bin(s, file_size) == s.lib_path # NoPath \/ file_size < MB

\* the test that skips a shared-library line
lib_rejected(s, file_size) ==
  s.bin_path # NoPath \/ s.lib_path # NoPath \/ file_size < MB

\* the update of min_raddr and max_raddr by one line
with_bounds(s, l) ==
  IF l.fields = 7 \/ ~HasV(l)
    THEN [s EXCEPT !.min_raddr = IF l.lower < @ THEN l.lower ELSE @,
                   !.max_raddr = IF l.upper > @ THEN l.upper ELSE @]
    ELSE s

\* one iteration of the getline loop on line l: the new <<self, maps_flag>>
parse_line(s0, flag, l) ==
  LET s == with_bounds(s0, l) IN
  IF l.fields < 7 THEN <<s0, flag>>
  ELSE IF flag % (2 * HEAP_MAP) < HEAP_MAP /\ HasHeap(l)
    THEN <<[s EXCEPT !.heap = [base |-> l.lower, size |-> l.upper - l.lower]],
           flag + HEAP_MAP>>
  ELSE IF ~HasPython(l) THEN <<s, flag>>
  ELSE IF elf_is_executable(l.path)
    THEN IF bin_rejected(s, file_size_of(l.path))
           THEN <<s, flag>>
           ELSE <<[s EXCEPT !.bin_path = l.path,
                            !.elf = [base |-> l.lower, size |-> l.upper - l.lower]],
                  flag>>
  ELSE IF lib_rejected(s, file_size_of(l.path))
           THEN <<s, flag>>
           ELSE <<[s EXCEPT !.lib_path = l.path,
                            !.elf = [base |-> l.lower, size |-> l.upper - l.lower]],
                  flag>>

\* the value of the return statement
parse_maps_return(s, flag) ==
  IF (s.bin_path = NoPath /\ s.lib_path = NoPath) \/ flag # HEAP_MAP THEN 1 ELSE 0

\* the lines getline() has still to return
Remaining == {j \in present : j > cursor}

NextLine == CHOOSE j \in Remaining : \A k \in Remaining : j <= k

\* fopen fails: the error slot is set and the function returns at once
ParseMapsOpenFail ==
  /\ pc = "init"
  /\ \E eno \in {"EACCES", "ENOENT", "EMFILE"} :
       austin_errno' = CASE eno = "EACCES" -> "EPROCPERM"
                         [] eno = "ENOENT" -> "EPROCNPID"
                         [] OTHER          -> "EPROCVM"
  /\ maps_flag' = 0
  /\ maps_ret' = parse_maps_return(self, 0)
  /\ pc' = IF parse_maps_return(self, 0) # 0 THEN "failed" ELSE "elf"
  /\ UNCHANGED <<arch, present, handles, attempts, cursor, self, ehdr_v, rd, an, hist, reads>>

\* fopen succeeds: the bounds and the two paths are reset
ParseMapsOpen ==
  /\ pc = "init"
  /\ self' = [self EXCEPT !.min_raddr = PtrMax, !.max_raddr = NULL,
                          !.bin_path = sfree(@), !.lib_path = sfree(@)]
  /\ maps_flag' = 0
  /\ cursor' = 0
  /\ pc' = "maps_scan"
  /\ handles' = fopen(handles)
  /\ UNCHANGED <<arch, present, attempts, maps_ret, austin_errno, ehdr_v, rd, an, hist, reads>>

\* one line of the listing
ParseMapsLine ==
  /\ pc = "maps_scan"
  /\ Remaining # {}
  /\ LET r == parse_line(self, maps_flag, MapLines[NextLine]) IN
       /\ self' = r[1]
       /\ maps_flag' = r[2]
  /\ cursor' = NextLine
  /\ handles' = IF reaches_elf_is_executable(maps_flag, MapLines[NextLine])
                  THEN elf_is_executable_handles(handles)
                  ELSE handles
  /\ UNCHANGED <<arch, present, pc, attempts, maps_ret, austin_errno, ehdr_v, rd, an, hist, reads>>

\* getline() returns -1: fclose and return
ParseMapsEnd ==
  /\ pc = "maps_scan"
  /\ Remaining = {}
  /\ maps_ret' = parse_maps_return(self, maps_flag)
  /\ pc' = IF parse_maps_return(self, maps_flag) # 0 THEN "failed" ELSE "elf"
  /\ handles' = fclose(handles)
  /\ UNCHANGED <<arch, present, attempts, cursor, self, maps_flag, austin_errno,
                 ehdr_v, rd, an, hist, reads>>

------------------------------------------------------------------------------
(* Binary Format Parser: _py_proc__analyze_elf and _py_proc__analyze_elfNN. *)

Max(a, b) == IF a >= b THEN a ELSE b

\* arithmetic of ElfNN_Addr and ElfNN_Off wraps at the word size
WordMod(cls) == IF cls = 64 THEN PtrMod ELSE 2 ^ Word32Bits

\* UINT64_MAX, UINT32_MAX
Sentinel(cls) == WordMod(cls) - 1

\* self->map.elf.base + (v - base)
remote_of(cls, elf_base, v, base) ==
  (elf_base + ((v - base) % WordMod(cls))) % PtrMod

\* the names _py_proc__check_sym knows
Anchors == {"_PyRuntime", "_PyThreadState_Current"}

\* _py_proc__check_sym(self, name, value): 1 when name is an anchor
check_sym(name) == IF name \in Anchors THEN 1 ELSE 0

\* sizeof(ehdr_v)
EhdrUnionSize == Lay(64).ehdr

\* the first byte past each header field, in a header of class cls
HdrEnd(cls) ==
  IF cls = 32
    THEN [magic |-> 4, class |-> 5, e_phoff |-> 32, e_shoff |-> 36, e_ehsize |-> 42,
          e_phentsize |-> 44, e_phnum |-> 46, e_shentsize |-> 48, e_shnum |-> 50,
          e_shstrndx |-> 52, w60 |-> 62]
    ELSE [magic |-> 4, class |-> 5, e_phoff |-> 40, e_shoff |-> 48, e_ehsize |-> 54,
          e_phentsize |-> 56, e_phnum |-> 58, e_shentsize |-> 60, e_shnum |-> 62,
          e_shstrndx |-> 64, w60 |-> 62]

\* the union after process_vm_readv copied the first k bytes of header new
header_prefix(new, old, k) ==
  [f \in DOMAIN new |-> IF HdrEnd(new.class)[f] <= k THEN new[f] ELSE old[f]]

\* e_shoff == 0 as Elf64_Ehdr reads it from the union
v64_e_shoff_zero(h) ==
  IF h.class = 32
    THEN h.e_ehsize = 0 /\ h.e_phentsize = 0 /\ h.e_phnum = 0 /\ h.e_shentsize = 0
    ELSE h.e_shoff = 0

\* the test of _py_proc__analyze_elf on its local ehdr
elf_invalid(h) == v64_e_shoff_zero(h) \/ h.w60 < 2 \/ ~h.magic

\* the local ehdr the test and the dispatch use: the union as it is on entry
local_ehdr(before, after) == before

\* py_proc__memcpy(self, raddr, n, dst): the bounds check, then copy_memory
py_proc__memcpy(addr, len, result, eno) ==
  IF self.min_raddr <= addr /\ addr < self.max_raddr
    THEN copy_memory(addr, len, result, eno)
    ELSE [NoRead EXCEPT !.addr = addr, !.len = len, !.in_range = FALSE,
                        !.err = austin_errno, !.ret = 1]

\* p_vaddr % p_align as the machine computes it. With p_align = 0 the
\* remainder is undefined: a build whose divide instruction traps raises
\* SIGFPE (div0 = "trap"); a build whose divide yields quotient 0 gets the
\* dividend back (div0 = "zero").
remainder(v, a) == IF a = 0 THEN v ELSE v % a

RECURSIVE get_base(_, _, _, _, _, _)
\* _get_base_NN from program header i on: the aligned p_vaddr of the first
\* PT_LOAD, the largest offset read, and how the scan ended
get_base(img, cls, h, maplen, i, div0) ==
  LET off == h.e_phoff + i * h.e_phentsize
      ph  == MapPhdr(img, cls, maplen, off)
  IN IF i >= h.e_phnum
       THEN [out |-> "ok", base |-> Sentinel(cls), max |-> -1]
     ELSE IF Kind(img, maplen, off + Lay(cls).p_type) = "fault"
       THEN [out |-> "fault", base |-> 0, max |-> off + Lay(cls).p_type]
     ELSE IF ph.p_type = "PT_LOAD"
       THEN IF Kind(img, maplen, off + Lay(cls).p_align) = "fault"
              THEN [out |-> "fault", base |-> 0, max |-> off + Lay(cls).p_align]
            ELSE IF ph.p_align = 0 /\ div0 = "trap"
              THEN [out |-> "fpe", base |-> 0, max |-> off + Lay(cls).p_align]
            ELSE [out |-> "ok", base |-> ph.p_vaddr - remainder(ph.p_vaddr, ph.p_align),
                  max |-> off + Lay(cls).p_align]
     ELSE LET r == get_base(img, cls, h, maplen, i + 1, div0)
          IN [r EXCEPT !.max = Max(@, off + Lay(cls).p_type)]

NoAnalysis ==
  [cls |-> 0, read_ok |-> FALSE, stale |-> ZeroHeader, fresh |-> ZeroHeader,
   object_file |-> NoPath, elf_map_size |-> 0, sh_name_base |-> 0,
   p_dynsym |-> NULL, p_strtabsh |-> NULL, base |-> 0, base_out |-> "none",
   sh_off |-> 0,
   tab_off |-> 0, symbols |-> 0, fed |-> <<>>, max_off |-> -1]

\* the call of _py_proc__analyze_elf ends: its outcome is recorded and
\* _py_proc__init goes on or fails
Finish(outcome, a) ==
  /\ hist' = Append(hist, [outcome |-> outcome, cls |-> a.cls, read_ok |-> a.read_ok,
                           stale |-> a.stale, fresh |-> a.fresh,
                           object_file |-> a.object_file,
                           elf_base |-> self.elf.base,
                           file_len |-> IF a.object_file = NoPath THEN 0
                                        ELSE Files[a.object_file].st_size,
                           map_size |-> a.elf_map_size, fed |-> a.fed,
                           base |-> a.base, base_out |-> a.base_out,
                           max_off |-> a.max_off])
  /\ an' = NoAnalysis
  /\ pc' = CASE outcome = "ok"    -> "statm"
             [] outcome = "crash" -> "crashed"
             [] OTHER             -> "failed"

\* _py_proc__analyze_elf: copy the union, read the header of the object at
\* map.elf.base into the union, test the copy, dispatch on the copy
AnalyzeElf ==
  /\ pc = "elf"
  /\ \E result \in {-1, 0, 16, 48, EhdrUnionSize} :
     \E eno \in (IF result = -1 THEN Errnos ELSE {"EFAULT"}) :
       LET call  == py_proc__memcpy(self.elf.base, EhdrUnionSize, result, eno)
           after == IF call.issued /\ result >= 0
                      THEN header_prefix(HeaderOf(PathAt(self.elf.base), arch),
                                         ehdr_v, result)
                      ELSE ehdr_v
           ehdr  == local_ehdr(ehdr_v, after)
           a     == [NoAnalysis EXCEPT !.read_ok = (call.ret = 0), !.stale = ehdr,
                                       !.fresh = after]
       IN /\ rd' = call
          /\ austin_errno' = call.err
          /\ ehdr_v' = after
          /\ IF call.ret # 0 THEN Finish("read_fail", a)
             ELSE IF elf_invalid(ehdr) THEN Finish("bad_format", a)
             ELSE IF ehdr.class \in {32, 64}
               THEN /\ an' = [a EXCEPT !.cls = ehdr.class]
                    /\ pc' = "elf_setup"
                    /\ hist' = hist
             ELSE Finish("bad_format", a)
  /\ UNCHANGED <<arch, present, handles, attempts, cursor, self, maps_flag, maps_ret, reads>>

\* _py_proc__analyze_elfNN up to the test of base: open and map the object
\* file, read the section-name table's header, compute the load bias
ElfSetup ==
  /\ pc = "elf_setup"
  /\ \E div0 \in {"trap", "zero"} :
     LET cls    == an.cls
         obj    == IF self.lib_path # NoPath THEN self.lib_path ELSE self.bin_path
         img    == Image(obj, cls)
         ehdr   == ehdr_v
         sht    == ehdr.e_shnum * ehdr.e_shentsize
         maplen == (ehdr.e_shoff + sht) % WordMod(cls)
         o1     == ehdr.e_shoff + ehdr.e_shstrndx * ehdr.e_shentsize
         t1     == o1 + Lay(cls).sh_offset
         gb     == get_base(img, cls, ehdr, maplen, 0, div0)
         a      == [an EXCEPT !.object_file = obj, !.elf_map_size = maplen,
                              !.sh_name_base = MapShdr(img, cls, maplen, o1).sh_offset,
                              !.base = gb.base, !.sh_off = ehdr.e_shoff]
     IN IF Kind(img, maplen, t1) = "fault"
          THEN Finish("crash", [a EXCEPT !.max_off = t1])
        ELSE IF gb.out # "ok"
          THEN Finish("crash", [a EXCEPT !.max_off = Max(t1, gb.max),
                                         !.base_out = gb.out])
        ELSE /\ an' = [a EXCEPT !.max_off = Max(t1, gb.max), !.base_out = gb.out]
             /\ pc' = IF gb.base # Sentinel(cls) THEN "elf_sections" ELSE "elf_close"
             /\ hist' = hist
  /\ handles' = mmap(open(handles))
  /\ UNCHANGED <<arch, present, attempts, cursor, self, maps_flag, maps_ret,
                 austin_errno, ehdr_v, rd, reads>>

\* one iteration of the loop over the section headers
ElfSection ==
  /\ pc = "elf_sections"
  /\ an.sh_off < an.elf_map_size
  /\ LET cls    == an.cls
         img    == Image(an.object_file, cls)
         maplen == an.elf_map_size
         shdr   == MapShdr(img, cls, maplen, an.sh_off)
         noff   == an.sh_name_base + shdr.sh_name
         name   == MapStr(img, maplen, noff)
         step   == [an EXCEPT !.sh_off = @ + ehdr_v.e_shentsize]
     IN IF Kind(img, maplen, an.sh_off + Lay(cls).sh_type) = "fault"
          THEN /\ Finish("crash", [an EXCEPT !.max_off = Max(@, an.sh_off + Lay(cls).sh_type)])
               /\ self' = self
        ELSE IF shdr.sh_type # "SHT_DYNSYM" /\ cls = 32
          THEN /\ an' = [step EXCEPT !.max_off = Max(@, an.sh_off + Lay(cls).sh_type)]
               /\ UNCHANGED <<pc, hist, self>>
        ELSE IF Kind(img, maplen, noff) = "fault"
          THEN /\ Finish("crash", [an EXCEPT !.max_off = Max(@, Max(an.sh_off + Lay(cls).sh_type, noff))])
               /\ self' = self
        ELSE IF shdr.sh_type = "SHT_DYNSYM" /\ name = ".dynsym"
          THEN /\ an' = [step EXCEPT !.p_dynsym = an.sh_off,
                                     !.max_off = Max(@, Max(an.sh_off + Lay(cls).sh_type, noff))]
               /\ UNCHANGED <<pc, hist, self>>
        ELSE IF cls = 64 /\ name = ".bss"
          THEN /\ an' = [step EXCEPT !.max_off = Max(@, Max(an.sh_off + Lay(cls).sh_size, noff))]
               /\ self' = [self EXCEPT !.bss =
                             [base |-> remote_of(cls, self.elf.base, shdr.sh_addr, an.base),
                              size |-> shdr.sh_size]]
               /\ UNCHANGED <<pc, hist>>
        ELSE /\ an' = [step EXCEPT !.max_off = Max(@, Max(an.sh_off + Lay(cls).sh_type, noff))]
             /\ UNCHANGED <<pc, hist, self>>
  /\ UNCHANGED <<arch, present, handles, attempts, cursor, maps_flag, maps_ret,
                 austin_errno, ehdr_v, rd, reads>>

\* the section loop is over: is there a dynamic symbol table with content
ElfDynsym ==
  /\ pc = "elf_sections"
  /\ an.sh_off >= an.elf_map_size
  /\ LET cls    == an.cls
         img    == Image(an.object_file, cls)
         maplen == an.elf_map_size
         dynsym == MapShdr(img, cls, maplen, an.p_dynsym)
         t      == an.p_dynsym + Lay(cls).sh_link
     IN IF an.p_dynsym = NULL
          THEN /\ pc' = "elf_close"
               /\ UNCHANGED <<an, hist>>
        ELSE IF Kind(img, maplen, t) = "fault"
          THEN Finish("crash", [an EXCEPT !.max_off = Max(@, t)])
        ELSE IF dynsym.sh_offset = 0
          THEN /\ pc' = "elf_close"
               /\ an' = [an EXCEPT !.max_off = Max(@, an.p_dynsym + Lay(cls).sh_offset)]
               /\ hist' = hist
        ELSE /\ pc' = "elf_syms"
             /\ an' = [an EXCEPT !.max_off = Max(@, t),
                                 !.p_strtabsh = ehdr_v.e_shoff + dynsym.sh_link * ehdr_v.e_shentsize,
                                 !.tab_off = dynsym.sh_offset]
             /\ hist' = hist
  /\ UNCHANGED <<arch, present, handles, attempts, cursor, self, maps_flag, maps_ret,
                 austin_errno, ehdr_v, rd, reads>>

RECURSIVE SeqMax(_)
SeqMax(s) == IF s = <<>> THEN -1 ELSE Max(Head(s), SeqMax(Tail(s)))

\* of the offsets s read in this order, those really read: all of them, or
\* the ones up to the first that faults
Touched(img, maplen, s) ==
  LET F == {i \in 1 .. Len(s) : Kind(img, maplen, s[i]) = "fault"}
  IN IF F = {} THEN s ELSE SubSeq(s, 1, CHOOSE i \in F : \A j \in F : i <= j)

Faulted(img, maplen, s) == \E i \in 1 .. Len(s) : Kind(img, maplen, s[i]) = "fault"

\* the loop over the dynamic symbols goes on while tab_off is in the table
in_table(tab_off, dynsym) == tab_off < dynsym.sh_offset + dynsym.sh_size

\* a loop that stops one anchor late
enough_late(symbols) == symbols > SYMBOLS

\* the loop stops as soon as the count of resolved anchors reaches SYMBOLS
enough(symbols) == symbols >= SYMBOLS

\* return !symbols
analyze_result(symbols) == IF symbols = 0 THEN "no_symbols" ELSE "ok"

\* one iteration of the loop over the dynamic symbols
ElfSymbol ==
  /\ pc = "elf_syms"
  /\ LET cls    == an.cls
         img    == Image(an.object_file, cls)
         maplen == an.elf_map_size
         dynsym == MapShdr(img, cls, maplen, an.p_dynsym)
         strtab == MapShdr(img, cls, maplen, an.p_strtabsh)
         sym    == MapSym(img, cls, maplen, an.tab_off)
         noff   == strtab.sh_offset + sym.st_name
         name   == MapStr(img, maplen, noff)
         value  == remote_of(cls, self.elf.base, sym.st_value, an.base)
         offs   == << an.p_strtabsh + Lay(cls).sh_offset, an.tab_off + Lay(cls).st_name,
                      an.tab_off + Lay(cls).st_value, noff >>
         got    == an.symbols + check_sym(name)
         a      == [an EXCEPT !.max_off = Max(@, SeqMax(Touched(img, maplen, offs)))]
     IN /\ in_table(an.tab_off, dynsym)
        /\ IF Faulted(img, maplen, offs)
             THEN /\ Finish("crash", a)
                  /\ self' = self
             ELSE /\ an' = [a EXCEPT !.symbols = got,
                                     !.fed = Append(@, <<name, value>>),
                                     !.tab_off = IF enough(got) THEN @ ELSE @ + dynsym.sh_entsize]
                  /\ self' = IF check_sym(name) = 1
                               THEN [self EXCEPT !.sym[name] = value] ELSE self
                  /\ pc' = IF enough(got) THEN "elf_close" ELSE "elf_syms"
                  /\ hist' = hist
  /\ UNCHANGED <<arch, present, handles, attempts, cursor, maps_flag, maps_ret,
                 austin_errno, ehdr_v, rd, reads>>

\* tab_off has left the table
ElfSymbolsEnd ==
  /\ pc = "elf_syms"
  /\ ~in_table(an.tab_off,
               MapShdr(Image(an.object_file, an.cls), an.cls, an.elf_map_size, an.p_dynsym))
  /\ pc' = "elf_close"
  /\ UNCHANGED <<arch, present, handles, attempts, cursor, self, maps_flag, maps_ret,
                 austin_errno, ehdr_v, rd, an, hist, reads>>

\* munmap, close, return !symbols
ElfClose ==
  /\ pc = "elf_close"
  /\ Finish(analyze_result(an.symbols), an)
  /\ handles' = close(munmap(handles))
  /\ UNCHANGED <<arch, present, attempts, cursor, self, maps_flag, maps_ret,
                 austin_errno, ehdr_v, rd, reads>>

------------------------------------------------------------------------------
(* The rest of _py_proc__init: page size and resident memory.              *)

\* getpagesize()
PageSize == 2 ^ 12

\* the second number of /proc/<pid>/statm, in pages
ResidentPages == 3

\* _py_proc__get_resident_memory: the value returned, the error slot and the
\* handles, from the outcome of fopen and the count fscanf returns
get_resident_memory(h, err, page_size, opened, matched) ==
  IF ~opened
    THEN [ret |-> -1, err |-> "EPROCVM", handles |-> h]
  ELSE IF matched # 2
    THEN [ret |-> -1, err |-> err, handles |-> fopen(h)]
  ELSE [ret |-> ResidentPages * page_size, err |-> err,
        handles |-> fclose(fopen(h))]

\* _py_proc__init after a successful analysis, up to SUCCESS
GetResidentMemory ==
  /\ pc = "statm"
  /\ \E opened \in BOOLEAN :
     \E matched \in {-1, 1, 2} :
       LET r == get_resident_memory(handles, austin_errno, PageSize, opened, matched)
       IN /\ self' = [self EXCEPT !.page_size = PageSize,
                                  !.last_resident_memory = r.ret]
          /\ austin_errno' = r.err
          /\ handles' = r.handles
  /\ pc' = "ready"
  /\ UNCHANGED <<arch, present, attempts, cursor, maps_flag, maps_ret,
                 ehdr_v, rd, an, hist, reads>>

------------------------------------------------------------------------------
(* Reads of the attached sampler: copy_memory on an address taken from the *)
(* target's memory.                                                        *)

SampleRead ==
  /\ pc = "ready"
  /\ reads < MaxReads
  /\ \E addr \in {NULL, self.heap.base, self.max_raddr} :
     \E len \in {0, 8} :
     \E result \in {-1, 0, 4, 8} :
     \E eno \in (IF result = -1 THEN Errnos ELSE {"EFAULT"}) :
       /\ result <= len
       /\ rd' = copy_memory(addr, len, result, eno)
       /\ austin_errno' = copy_memory(addr, len, result, eno).err
  /\ reads' = reads + 1
  /\ UNCHANGED <<arch, present, handles, pc, attempts, cursor, self, maps_flag, maps_ret,
                 ehdr_v, an, hist>>

------------------------------------------------------------------------------
(* The session. *)

ZeroRegion == [base |-> NULL, size |-> 0]

Init ==
  /\ arch \in {32, 64}
  /\ present \in SUBSET (1 .. NLines)
  /\ pc = "init"
  /\ attempts = 1
  /\ cursor = 0
  /\ self = [bin_path |-> NoPath, lib_path |-> NoPath,
             min_raddr |-> NULL, max_raddr |-> NULL,
             elf |-> ZeroRegion, heap |-> ZeroRegion, bss |-> ZeroRegion,
             sym |-> [n \in Anchors |-> NULL],
             page_size |-> 0, last_resident_memory |-> 0]
  /\ maps_flag = 0
  /\ maps_ret = 0
  /\ austin_errno = "EOK"
  /\ ehdr_v = ZeroHeader
  /\ rd = NoRead
  /\ an = NoAnalysis
  /\ hist = <<>>
  /\ reads = 0
  /\ handles = NoHandles

\* _py_proc__init failed and its caller tries again
Retry ==
  /\ pc = "failed"
  /\ attempts < MaxAttempts
  /\ attempts' = attempts + 1
  /\ pc' = "init"
  /\ UNCHANGED <<arch, present, handles, cursor, self, maps_flag, maps_ret, austin_errno,
                 ehdr_v, rd, an, hist, reads>>

Next ==
  \/ ParseMapsOpenFail
  \/ ParseMapsOpen
  \/ ParseMapsLine
  \/ ParseMapsEnd
  \/ AnalyzeElf
  \/ ElfSetup
  \/ ElfSection
  \/ ElfDynsym
  \/ ElfSymbol
  \/ ElfSymbolsEnd
  \/ ElfClose
  \/ GetResidentMemory
  \/ SampleRead
  \/ Retry

Spec == Init /\ [][Next]_vars

------------------------------------------------------------------------------
(* Properties. *)

\* C1: copy_memory returns zero if and only if process_vm_readv reported
\* exactly len bytes; every shorter outcome, 0 bytes and -1 included, makes
\* it return non-zero.
C1_ZeroIffAllCopied ==
  rd.issued => (rd.ret = 0 <=> rd.result = rd.len)

\* a read of 8 bytes of which the syscall copied 4 was reported as a failure
C1_Witness ==
  rd.issued /\ rd.len = 8 /\ rd.result = 4 /\ rd.ret # 0

\* C2: every copy_memory call that returns non-zero has set the error slot,
\* during the call, to EPROCNPID (ESRCH), EPROCPERM (EPERM) or EMEMCOPY
\* (any other failure).
C2_FailureSetsError ==
  (rd.issued /\ rd.ret # 0) =>
    /\ rd.set
    /\ rd.err = CASE rd.eno = "ESRCH" -> "EPROCNPID"
                  [] rd.eno = "EPERM" -> "EPROCPERM"
                  [] OTHER            -> "EMEMCOPY"

\* C3: no cross-process read syscall is issued for an address outside
\* [min_raddr, max_raddr).
C3_ReadsInBounds ==
  rd.issued => rd.in_range

\* C4: when _py_proc__parse_maps_file has returned success, exactly one of
\* bin_path and lib_path is set.
C4_ExactlyOnePath ==
  pc = "elf" => ((self.bin_path # NoPath) # (self.lib_path # NoPath))

\* line j is one the scan accepts as the executable: it names python, the
\* file is an ELF executable and passes the size test of the code
AcceptedExec(j) ==
  LET l == MapLines[j] IN
    /\ l.fields >= 7 /\ HasPython(l) /\ ~HasHeap(l)
    /\ elf_is_executable(l.path) /\ ~(file_size_of(l.path) < MB)

SeenExecs == {j \in present : j <= cursor /\ AcceptedExec(j)}

\* C5: during one scan, once bin_path is set no later line changes
\* bin_path, lib_path or the elf region; and as soon as the scan has read an
\* accepted executable line, the elf region is that of the first such line,
\* whatever library lines came before it.
C5_ExecutableWins ==
  /\ [][(pc = "maps_scan" /\ self.bin_path # NoPath) =>
          (self'.bin_path = self.bin_path /\ self'.lib_path = self.lib_path
           /\ self'.elf = self.elf)]_vars
  /\ [](pc = "maps_scan" /\ SeenExecs # {} =>
          LET l == MapLines[CHOOSE j \in SeenExecs : \A k \in SeenExecs : j <= k]
          IN /\ self.elf = [base |-> l.lower, size |-> l.upper - l.lower]
             /\ self.bin_path = l.path)

\* the scan took python3.8 after libpython and has since read a second
\* executable and a second library
C5_Witness ==
  /\ pc = "maps_scan" /\ {1, 2, 3, 7} \subseteq present /\ cursor >= 7
  /\ self.bin_path = "/usr/bin/python3.8" /\ self.elf.base = MapLines[2].lower

\* C6: a file is selected as binary or library only if its line names
\* python and its size exceeds 2^20 bytes.
C6_SizeExceedsMiB ==
  \A p \in {self.bin_path, self.lib_path} \ {NoPath} :
    /\ \E j \in 1 .. NLines : MapLines[j].path = p /\ HasPython(MapLines[j])
    /\ Files[p].st_size > MB

\* an ELF header that _py_proc__analyze_elf must accept
HeaderValid(h) ==
  h.magic /\ h.e_shoff # 0 /\ h.e_shnum >= 2 /\ h.class \in {32, 64}

\* C7: in every call of _py_proc__analyze_elf that read the header, the
\* call fails with a format error if and only if the header read in that
\* call is invalid, and it dispatches on the class of that header.
C7_DecidesOnHeaderRead ==
  \A i \in DOMAIN hist :
    hist[i].read_ok =>
      /\ hist[i].outcome = "bad_format" <=> ~HeaderValid(hist[i].fresh)
      /\ hist[i].outcome # "bad_format" => hist[i].cls = hist[i].fresh.class

Pairs(fed) == {fed[k] : k \in DOMAIN fed}

\* C8: two consecutive calls of _py_proc__analyze_elf on the same target,
\* the first on a fresh process, both having read the header, end the same
\* way and feed the same (name, address) pairs to the symbol resolver.
C8_SameOutcomeTwice ==
  (Len(hist) >= 2 /\ hist[1].read_ok /\ hist[2].read_ok) =>
    /\ hist[1].outcome = hist[2].outcome
    /\ Pairs(hist[1].fed) = Pairs(hist[2].fed)

\* the load bias of an image: its first PT_LOAD, aligned down
Loads(img) == {i \in DOMAIN img.phdrs : img.phdrs[i].p_type = "PT_LOAD"}

FirstLoad(img) == img.phdrs[CHOOSE i \in Loads(img) : \A k \in Loads(img) : i <= k]

\* v rounded down to a multiple of a; 0 and 1 both ask for no alignment
AlignDown(v, a) == IF a \in {0, 1} THEN v ELSE v - (v % a)

Bias(img, cls) ==
  IF Loads(img) = {} THEN Sentinel(cls)
  ELSE AlignDown(FirstLoad(img).p_vaddr, FirstLoad(img).p_align)

\* the bias is computed by a division by zero
ZeroAlign(img) == Loads(img) # {} /\ FirstLoad(img).p_align = 0

\* the dynamic symbols of the analysed file, in table order, each with the
\* address elf.base + (st_value - bias)
Table(h) ==
  LET img == Image(h.object_file, h.cls)
  IN [i \in DOMAIN img.syms |->
        << img.syms[i].name,
           (h.elf_base + ((img.syms[i].st_value - Bias(img, h.cls)) % WordMod(h.cls))) % PtrMod >>]

Resolved(fed) == Cardinality({k \in DOMAIN fed : fed[k][1] \in Anchors})

\* C9: the entries passed to _py_proc__check_sym are the table's entries in
\* table order, each with the address elf.base + (st_value - bias); none
\* is examined after the count of resolved anchors has reached SYMBOLS;
\* when the file is the one mapped at elf.base and has a loadable segment
\* the scan ends only at the end of the table or with SYMBOLS anchors; and the analysis reports
\* success if and only if at least one anchor was resolved. (A bias
\* computed by a division by zero is left to C12.)
C9_SymbolScan ==
  \A i \in DOMAIN hist :
    LET h == hist[i] IN
    (h.outcome \in {"ok", "no_symbols"}
       /\ ~ZeroAlign(Image(h.object_file, h.cls))) =>
      /\ Len(h.fed) <= Len(Table(h))
      /\ \A k \in DOMAIN h.fed : h.fed[k] = Table(h)[k]
      /\ \A k \in DOMAIN h.fed : k < Len(h.fed) => Resolved(SubSeq(h.fed, 1, k)) < SYMBOLS
      /\ (h.object_file = PathAt(h.elf_base)
            /\ Loads(Image(h.object_file, h.cls)) # {}) =>
           (Len(h.fed) = Len(Table(h)) \/ Resolved(h.fed) >= SYMBOLS)
      /\ h.outcome = "ok" <=> Resolved(h.fed) >= 1

\* the analysis of python3.8 stopped at its fourth symbol, the second
\* anchor, and left the fifth unexamined
C9_Witness ==
  \E i \in DOMAIN hist :
    /\ hist[i].outcome = "ok" /\ hist[i].object_file = "/usr/bin/python3.8"
    /\ Len(hist[i].fed) = 4 /\ Resolved(hist[i].fed) = SYMBOLS

\* C10: in the analysis of a file with its own header, every offset
\* dereferenced in the mapping is smaller than elf_map_size and smaller
\* than the file's length, and a file shorter than its header declares
\* fails with a format error.
C10_OffsetsInsideFile ==
  \A i \in DOMAIN hist :
    LET h == hist[i] IN
    (h.object_file # NoPath /\ h.object_file = PathAt(h.elf_base)) =>
      /\ h.max_off < h.map_size
      /\ h.max_off < h.file_len
      /\ h.file_len < h.map_size => h.outcome = "bad_format"

\* the positions at which none of the inspection operations is running
Returned == pc \in {"init", "elf", "elf_setup", "statm", "ready", "failed"}

\* C11: whenever _py_proc__parse_maps_file, _elf_is_executable,
\* _py_proc__analyze_elfNN and _py_proc__get_resident_memory have returned,
\* on the error paths too, every stream, descriptor and mapping they acquired
\* has been released: the sampler holds as many handles as before the calls.
C11_HandlesReleased == Returned => handles = NoHandles

\* C12: for the table of the analysed file, _get_base_NN returns p_vaddr of
\* the first PT_LOAD entry in table order rounded down to a multiple of its
\* p_align, whatever p_align is, 0 and 1 included; it returns the all-ones
\* sentinel only for a table without PT_LOAD, and then no symbol is passed
\* on and the analysis reports failure.
C12_BaseOfFirstLoad ==
  \A i \in DOMAIN hist :
    LET h   == hist[i]
        img == Image(h.object_file, h.cls)
    IN (h.base_out # "none" /\ h.object_file = PathAt(h.elf_base)) =>
         /\ h.base_out = "ok"
         /\ h.base = Bias(img, h.cls)
         /\ h.base = Sentinel(h.cls) <=> Loads(img) = {}
         /\ h.base = Sentinel(h.cls) => h.fed = <<>> /\ h.outcome = "no_symbols"

\* the file the ELF analysis opens for a py_proc_t
ObjectFile(s) == IF s.lib_path # NoPath THEN s.lib_path ELSE s.bin_path

\* C13: once _py_proc__parse_maps_file has returned success, the file the
\* ELF analysis opens, lib_path if set and bin_path otherwise, is the file
\* behind the region recorded as map.elf, so that the symbol offsets and
\* elf.base belong to the same file.
C13_ObjectFileBacksElf ==
  (pc \notin {"init", "maps_scan"} /\ maps_ret = 0) =>
     ObjectFile(self) = PathAt(self.elf.base)

====
